---- MODULE Spec2Model ----
(***************************************************************************)
(* dosocs2/util.py: safe archive extraction (tempextract) and the          *)
(* directory verification code (gen_ver_code, get_dir_hashes).             *)
(*                                                                         *)
(* Path strings are sequences of one-character strings, so that the        *)
(* character-wise os.path.commonprefix and the component-wise              *)
(* os.path.normpath are both computed as the library computes them.        *)
(* Digests are natural numbers: fixed-width lowercase hex strings sort as  *)
(* the numbers they spell.                                                 *)
(***************************************************************************)
EXTENDS Integers, Sequences, FiniteSets, TLC

\* ------------------------------------------------------------------ bounds

\* Longest member list of an input archive.
MaxMembers == 2

\* Longest sequence of hash strings handed to gen_ver_code directly.
MaxHashes == 3

\* Number of changes other processes make to the tree during get_dir_hashes.
MaxFsChanges == 2

\* ------------------------------------------------------------ path strings

\* str.startswith('/')
isabs(p) == Len(p) > 0 /\ p[1] = "/"

\* posixpath.join(a, b), as called at util.py:114
join(a, b) ==
    IF isabs(b) THEN b
    ELSE IF a = <<>> \/ a[Len(a)] = "/" THEN a \o b
    ELSE a \o <<"/">> \o b

RECURSIVE SplitAcc(_, _, _)
SplitAcc(p, cur, acc) ==
    IF p = <<>> THEN Append(acc, cur)
    ELSE IF Head(p) = "/" THEN SplitAcc(Tail(p), <<>>, Append(acc, cur))
    ELSE SplitAcc(Tail(p), Append(cur, Head(p)), acc)

\* str.split('/'): the components between the slashes, empty ones kept
split(p) == SplitAcc(p, <<>>, <<>>)

RECURSIVE sepjoin(_)
\* '/'.join(comps)
sepjoin(comps) ==
    IF comps = <<>> THEN <<>>
    ELSE IF Len(comps) = 1 THEN comps[1]
    ELSE comps[1] \o <<"/">> \o sepjoin(Tail(comps))

ParDir == <<".", ".">>
CurDir == <<".">>

\* posixpath.normpath: 0, 1 or 2 leading slashes are kept
initial_slashes(p) ==
    IF ~isabs(p) THEN 0
    ELSE IF Len(p) >= 2 /\ p[2] = "/" /\ ~(Len(p) >= 3 /\ p[3] = "/") THEN 2
    ELSE 1

RECURSIVE NormComps(_, _, _)
\* the loop of posixpath.normpath over the split components
NormComps(comps, new, slashes) ==
    IF comps = <<>> THEN new
    ELSE LET comp == Head(comps)
             rest == Tail(comps)
         IN  IF comp = <<>> \/ comp = CurDir THEN NormComps(rest, new, slashes)
             ELSE IF \/ comp # ParDir
                     \/ (slashes = 0 /\ new = <<>>)
                     \/ (new # <<>> /\ new[Len(new)] = ParDir)
                  THEN NormComps(rest, Append(new, comp), slashes)
             ELSE IF new # <<>>
                  THEN NormComps(rest, SubSeq(new, 1, Len(new) - 1), slashes)
             ELSE NormComps(rest, new, slashes)

normpath(p) ==
    IF p = <<>> THEN CurDir
    ELSE LET s == initial_slashes(p)
             body == sepjoin(NormComps(split(p), <<>>, s))
             out == IF s = 0 THEN body
                    ELSE IF s = 1 THEN <<"/">> \o body
                    ELSE <<"/", "/">> \o body
         IN  IF out = <<>> THEN CurDir ELSE out

\* the process's working directory, used by abspath for relative paths only
Cwd == <<"/", "w">>

\* os.path.abspath, as called at util.py:104-105
abspath(p) == IF isabs(p) THEN normpath(p) ELSE normpath(join(Cwd, p))

RECURSIVE commonprefix(_, _)
\* os.path.commonprefix of two strings: the longest common leading run of
\* CHARACTERS (not of path components)
commonprefix(a, b) ==
    IF a = <<>> \/ b = <<>> \/ Head(a) # Head(b) THEN <<>>
    ELSE <<Head(a)>> \o commonprefix(Tail(a), Tail(b))

\* tempextract.is_within_directory (util.py:102-109)
is_within_directory(directory, target) ==
    LET abs_directory == abspath(directory)
        abs_target == abspath(target)
        prefix == commonprefix(abs_directory, abs_target)
    IN  prefix = abs_directory

\* zipfile's member-name sanitisation inside ZipFile.extractall (util.py:126):
\* empty, '.' and '..' components are dropped and the rest is joined under
\* the destination directory
ZipInvalid(comp) == comp = <<>> \/ comp = CurDir \/ comp = ParDir

zip_target(path, name) ==
    normpath(join(path, sepjoin(SelectSeq(split(name), LAMBDA c : ~ZipInvalid(c)))))

\* TarFile.extractall(path) without an extraction filter (util.py:118): each
\* member goes to join(path, member.name), which the kernel resolves
tar_target(path, name) == normpath(join(path, name))

\* ---------------------------------------------------------- the file system

\* the names tempfile.mkdtemp can hand out (always absolute)
RootAB == <<"/", "t", "/", "a", "b">>
RootABC == <<"/", "t", "/", "a", "b", "c">>
Roots == {RootAB, RootABC}

\* member names as recorded in an archive (untrusted)
MemberNames ==
    { <<"x">>,
      <<"d", "/", "x">>,
      <<"d", "/", ".", ".", "/", "x">>,
      <<".", ".", "/", "x">>,
      <<".", ".", "/", "a", "b", "c", "/", "x">>,
      <<"/", "e", "/", "p">> }

RECURSIVE SeqsUpTo(_, _)
SeqsUpTo(S, n) ==
    IF n = 0 THEN {<<>>}
    ELSE LET shorter == SeqsUpTo(S, n - 1)
         IN  shorter \cup {Append(s, x) : s \in shorter, x \in S}

\* an input file: what tarfile.is_tarfile / zipfile.is_zipfile say of it, and
\* the member names recorded in it
Archives ==
    { [is_tarfile |-> t, is_zipfile |-> z, names |-> ns] :
        t \in BOOLEAN, z \in BOOLEAN, ns \in SeqsUpTo(MemberNames, MaxMembers) }

NoDir == <<>>

VARIABLES
    pc,         \* position in tempextract
    ar,         \* the input archive
    tempdir,    \* local variable tempdir, NoDir while unbound
    dirs,       \* temporary directories that exist on disk
    written,    \* canonical paths of the files written by this call
    checked,    \* number of members safe_extract has accepted so far
    exc,        \* the exception in flight when the finally clause is entered
    outcome,    \* what the caller observes at the end of the with statement
    rmtrees     \* number of shutil.rmtree calls made

evars == <<pc, ar, tempdir, dirs, written, checked, exc, outcome, rmtrees>>

VARIABLES
    vpc,         \* "input", "first" (code computed), "second" (variant computed)
    hashesIn,    \* the sequence of hash strings given to gen_ver_code
    excludedIn,  \* the exclusion set given to gen_ver_code
    code,        \* gen_ver_code(hashesIn, excludedIn)
    variant,     \* "perm": variantIn is a permutation; "dup": a repetition
    variantIn,   \* a second input built from hashesIn
    variantCode  \* gen_ver_code(variantIn, excludedIn)

vvars == <<vpc, hashesIn, excludedIn, code, variant, variantIn, variantCode>>

VARIABLES
    hpc,             \* position in get_dir_hashes
    fs,              \* the tree on disk: path -> [kind, data, readable]
    excluded_hashes, \* argument excluded_hashes
    towalk,          \* directories os.walk has still to scan
    yielded,         \* paths allpaths has yielded so far
    listedFiles,     \* paths the walk listed as non-directories
    listing,         \* local variable listing
    hashes,          \* local variable hashes (a dict)
    idx,             \* position of the running comprehension in listing
    relative,        \* paths that passed the filter of relative_listing
    result,          \* the returned triple, or NoResult
    herr,            \* the exception get_dir_hashes raised, or "none"
    fsChanges        \* changes made to the tree by other processes so far

hvars == <<hpc, fs, excluded_hashes, towalk, yielded, listedFiles, listing,
           hashes, idx, relative, result, herr, fsChanges>>

vars == <<evars, vvars, hvars>>

\* archive_type (util.py:85-91)
archive_type(a) ==
    IF a.is_tarfile THEN "tar"
    ELSE IF a.is_zipfile THEN "zip"
    ELSE "None"

InitExtract ==
    /\ pc = "start"
    /\ ar \in {a \in Archives : (~a.is_tarfile /\ ~a.is_zipfile) => a.names = <<>>}
    /\ tempdir = NoDir
    /\ dirs \in (SUBSET Roots) \ {Roots}
    /\ written = {}
    /\ checked = 0
    /\ exc = "none"
    /\ outcome = "none"
    /\ rmtrees = 0

\* util.py:97, tempfile.mkdtemp() returns a fresh directory
Mkdtemp ==
    /\ pc = "start"
    /\ \E r \in Roots \ dirs :
        /\ tempdir' = r
        /\ dirs' = dirs \cup {r}
    /\ pc' = "classify"
    /\ UNCHANGED <<ar, written, checked, exc, outcome, rmtrees>>
    /\ UNCHANGED <<vvars, hvars>>

\* util.py:97, tempfile.mkdtemp() raises (no space, no permission): tempdir
\* stays unbound and control goes to the finally clause
MkdtempFails ==
    /\ pc = "start"
    /\ exc' = "OSError"
    /\ pc' = "finally"
    /\ UNCHANGED <<ar, tempdir, dirs, written, checked, outcome, rmtrees>>
    /\ UNCHANGED <<vvars, hvars>>

\* util.py:98-99, 123, 128-129
Classify ==
    /\ pc = "classify"
    /\ LET ar_type == archive_type(ar)
       IN  IF ar_type = "tar" THEN pc' = "tar_check" /\ exc' = exc
           ELSE IF ar_type = "zip" THEN pc' = "zip_extract" /\ exc' = exc
           ELSE pc' = "finally" /\ exc' = "TypeError"
    /\ UNCHANGED <<ar, tempdir, dirs, written, checked, outcome, rmtrees>>
    /\ UNCHANGED <<vvars, hvars>>

\* util.py:113-116, one iteration of safe_extract's loop over tar.getmembers()
TarCheckMember ==
    /\ pc = "tar_check"
    /\ checked < Len(ar.names)
    /\ LET member_path == join(tempdir, ar.names[checked + 1])
       IN  IF ~is_within_directory(tempdir, member_path)
           THEN pc' = "finally" /\ exc' = "PathTraversal" /\ checked' = checked
           ELSE pc' = pc /\ exc' = exc /\ checked' = checked + 1
    /\ UNCHANGED <<ar, tempdir, dirs, written, outcome, rmtrees>>
    /\ UNCHANGED <<vvars, hvars>>

\* util.py:118, tar.extractall(path, ...) after the loop, then line 122 yields
TarExtractAll ==
    /\ pc = "tar_check"
    /\ checked = Len(ar.names)
    /\ written' = written \cup
                    {tar_target(tempdir, ar.names[i]) : i \in 1..Len(ar.names)}
    /\ pc' = "yielded"
    /\ UNCHANGED <<ar, tempdir, dirs, checked, exc, outcome, rmtrees>>
    /\ UNCHANGED <<vvars, hvars>>

\* util.py:124-127, zf.extractall(path=tempdir), then line 127 yields
ZipExtractAll ==
    /\ pc = "zip_extract"
    /\ written' = written \cup
                    {zip_target(tempdir, ar.names[i]) : i \in 1..Len(ar.names)}
    /\ pc' = "yielded"
    /\ UNCHANGED <<ar, tempdir, dirs, checked, exc, outcome, rmtrees>>
    /\ UNCHANGED <<vvars, hvars>>

\* util.py:100, 118, 124, 126: opening the archive or extractall raises after
\* the first k members were written
ExtractFails ==
    /\ \/ pc = "zip_extract"
       \/ pc = "tar_check" /\ checked = 0
       \/ pc = "tar_check" /\ checked = Len(ar.names)
    /\ \E k \in 0..Len(ar.names) :
        /\ (pc = "tar_check" /\ checked < Len(ar.names)) => k = 0
        /\ written' = written \cup
             {IF pc = "tar_check" THEN tar_target(tempdir, ar.names[i])
                                  ELSE zip_target(tempdir, ar.names[i]) : i \in 1..k}
    /\ exc' = "ExtractError"
    /\ pc' = "finally"
    /\ UNCHANGED <<ar, tempdir, dirs, checked, outcome, rmtrees>>
    /\ UNCHANGED <<vvars, hvars>>

\* the body of the caller's with statement ends normally
CallerExits ==
    /\ pc = "yielded"
    /\ pc' = "finally"
    /\ UNCHANGED <<ar, tempdir, dirs, written, checked, exc, outcome, rmtrees>>
    /\ UNCHANGED <<vvars, hvars>>

\* the body of the caller's with statement raises: contextmanager throws the
\* exception into the generator at the yield
CallerRaises ==
    /\ pc = "yielded"
    /\ exc' = "CallerError"
    /\ pc' = "finally"
    /\ UNCHANGED <<ar, tempdir, dirs, written, checked, outcome, rmtrees>>
    /\ UNCHANGED <<vvars, hvars>>

\* a canonical path is the directory root or lies below it
Under(p, root) ==
    \/ p = root
    \/ /\ Len(p) > Len(root)
       /\ SubSeq(p, 1, Len(root)) = root
       /\ p[Len(root) + 1] = "/"

\* util.py:130-131 with tempdir unbound: the name lookup raises
\* UnboundLocalError, which replaces the exception in flight
FinallyUnbound ==
    /\ pc = "finally"
    /\ tempdir = NoDir
    /\ outcome' = "UnboundLocalError"
    /\ pc' = "done"
    /\ UNCHANGED <<ar, tempdir, dirs, written, checked, exc, rmtrees>>
    /\ UNCHANGED <<vvars, hvars>>

\* cleanup written after the yield instead of in a finally clause: an
\* exception in flight propagates without rmtree being called
FinallyRmtree_OnSuccessOnly ==
    /\ pc = "finally"
    /\ tempdir # NoDir
    /\ rmtrees' = IF exc = "none" THEN rmtrees + 1 ELSE rmtrees
    /\ dirs' = IF exc = "none" THEN dirs \ {tempdir} ELSE dirs
    /\ written' = IF exc = "none" THEN {p \in written : ~Under(p, tempdir)} ELSE written
    /\ outcome' = IF exc = "none" THEN "ok" ELSE exc
    /\ pc' = "done"
    /\ UNCHANGED <<ar, tempdir, checked, exc>>
    /\ UNCHANGED <<vvars, hvars>>

\* util.py:130-131, shutil.rmtree(tempdir) removes the tree; the exception in
\* flight, if any, then propagates
FinallyRmtree ==
    /\ pc = "finally"
    /\ tempdir # NoDir
    /\ rmtrees' = rmtrees + 1
    /\ dirs' = dirs \ {tempdir}
    /\ written' = {p \in written : ~Under(p, tempdir)}
    /\ outcome' = IF exc = "none" THEN "ok" ELSE exc
    /\ pc' = "done"
    /\ UNCHANGED <<ar, tempdir, checked, exc>>
    /\ UNCHANGED <<vvars, hvars>>

\* util.py:131, shutil.rmtree(tempdir) raises (a read-only directory among the
\* extracted members, a busy file): the tree stays and the new exception
\* replaces the one in flight
FinallyRmtreeFails ==
    /\ pc = "finally"
    /\ tempdir # NoDir
    /\ rmtrees' = rmtrees + 1
    /\ outcome' = "RmtreeError"
    /\ pc' = "done"
    /\ UNCHANGED <<ar, tempdir, dirs, written, checked, exc>>
    /\ UNCHANGED <<vvars, hvars>>

NextExtract ==
    \/ Mkdtemp
    \/ MkdtempFails
    \/ Classify
    \/ TarCheckMember
    \/ TarExtractAll
    \/ ZipExtractAll
    \/ ExtractFails
    \/ CallerExits
    \/ CallerRaises
    \/ FinallyUnbound
    \/ FinallyRmtree
    \/ FinallyRmtreeFails

\* ----------------------------------------------------------------- digests

\* code point of a character
Ord(c) ==
    CASE c = "." -> 46 [] c = "/" -> 47
      [] c = "a" -> 97 [] c = "b" -> 98 [] c = "c" -> 99 [] c = "d" -> 100
      [] c = "e" -> 101 [] c = "p" -> 112 [] c = "q" -> 113 [] c = "r" -> 114
      [] c = "t" -> 116 [] c = "w" -> 119 [] c = "x" -> 120

RECURSIVE Sha256From(_, _)
Sha256From(h, bytes) ==
    IF bytes = <<>> THEN h
    ELSE Sha256From((h * 31 + Ord(Head(bytes))) % 251, Tail(bytes))

\* hashlib.sha256(bytes).hexdigest() (util.py:81, 205): a digest of the whole
\* byte string, one fixed-width word
Sha256(bytes) == Sha256From(7, bytes)

RECURSIVE Sha1From(_, _)
Sha1From(h, words) ==
    IF words = <<>> THEN h
    ELSE Sha1From((h * 257 + Head(words) + 1) % 65521, Tail(words))

\* hashlib.sha1(hashblob).hexdigest() (util.py:180); hashblob, the
\* concatenation of fixed-width words, is the sequence of those words
Sha1(hashblob) == Sha1From(1, hashblob)

\* sorted() on fixed-width hex strings (util.py:179)
sorted(hs) == SortSeq(hs, LAMBDA a, b : a < b)

\* gen_ver_code with the sorted() call left out
gen_ver_code_unsorted(hs, excluded) ==
    Sha1(SelectSeq(hs, LAMBDA h : h \notin excluded))

\* gen_ver_code (util.py:174-180)
gen_ver_code(hs, excluded) ==
    LET hashes_less_excluded == SelectSeq(hs, LAMBDA h : h \notin excluded)
        hashblob == sorted(hashes_less_excluded)
    IN  Sha1(hashblob)

\* file contents
Data == {<<"p">>, <<"q">>, <<"p", "q">>}

\* the content hashes files can have
HashPool == {Sha256(d) : d \in Data}

\* ------------------------------------------- gen_ver_code as a pure function

InitVerCode ==
    /\ vpc = "input"
    /\ hashesIn \in SeqsUpTo(HashPool, MaxHashes)
    /\ excludedIn \in SUBSET HashPool
    /\ code = 0
    /\ variant = "none"
    /\ variantIn = <<>>
    /\ variantCode = 0

\* gen_ver_code(hashesIn, excludedIn)
GenVerCode ==
    /\ vpc = "input"
    /\ code' = gen_ver_code(hashesIn, excludedIn)
    /\ vpc' = "first"
    /\ UNCHANGED <<hashesIn, excludedIn, variant, variantIn, variantCode>>
    /\ UNCHANGED <<evars, hvars>>

\* gen_ver_code on a permutation of hashesIn
GenVerCodePermuted ==
    /\ vpc = "first"
    /\ \E f \in Permutations(1..Len(hashesIn)) :
        LET P == [i \in 1..Len(hashesIn) |-> hashesIn[f[i]]]
        IN  /\ variantIn' = P
            /\ variantCode' = gen_ver_code(P, excludedIn)
    /\ variant' = "perm"
    /\ vpc' = "second"
    /\ UNCHANGED <<hashesIn, excludedIn, code>>
    /\ UNCHANGED <<evars, hvars>>

\* gen_ver_code on hashesIn with one of its elements repeated
GenVerCodeDuplicated ==
    /\ vpc = "first"
    /\ \E i \in 1..Len(hashesIn) :
        LET D == Append(hashesIn, hashesIn[i])
        IN  /\ variantIn' = D
            /\ variantCode' = gen_ver_code(D, excludedIn)
    /\ variant' = "dup"
    /\ vpc' = "second"
    /\ UNCHANGED <<hashesIn, excludedIn, code>>
    /\ UNCHANGED <<evars, hvars>>

NextVerCode ==
    \/ GenVerCode
    \/ GenVerCodePermuted
    \/ GenVerCodeDuplicated

\* ------------------------------------------------------------ get_dir_hashes

\* the directory get_dir_hashes is called on, and the paths below it
TreeRoot == <<"/", "r">>
NodeA == <<"/", "r", "/", "a">>
NodeD == <<"/", "r", "/", "d">>
NodeDC == <<"/", "r", "/", "d", "/", "c">>
TreePaths == {NodeA, NodeD, NodeDC}
TreePathSeq == <<NodeA, NodeD, NodeDC>>

\* os.path.dirname
dirname(p) ==
    LET comps == split(p)
    IN  sepjoin(SubSeq(comps, 1, Len(comps) - 1))

Absent == [kind |-> "absent", data |-> <<>>, readable |-> FALSE]
Dir == [kind |-> "dir", data |-> <<>>, readable |-> TRUE]
File(d, r) == [kind |-> "file", data |-> d, readable |-> r]

\* a tree: nothing exists below a path that is not a directory
IsTree(f) ==
    \A p \in TreePaths :
        (f[p] # Absent /\ dirname(p) # TreeRoot) => f[dirname(p)] = Dir

Trees ==
    {f \in [TreePaths -> {Absent, Dir} \cup {File(d, TRUE) : d \in {<<"p">>, <<"q">>}}] :
        IsTree(f)}

NoResult == [ver_code |-> 0, hashes |-> <<>>, dir_code |-> 0]

RECURSIVE StrLess(_, _)
\* str.__lt__: lexicographic by code point
StrLess(a, b) ==
    IF b = <<>> THEN FALSE
    ELSE IF a = <<>> THEN TRUE
    ELSE IF Head(a) # Head(b) THEN Ord(Head(a)) < Ord(Head(b))
    ELSE StrLess(Tail(a), Tail(b))

\* posixpath.relpath(path, start)
relpath(path, start) ==
    LET start_list == SelectSeq(split(abspath(start)), LAMBDA x : x # <<>>)
        path_list == SelectSeq(split(abspath(path)), LAMBDA x : x # <<>>)
        i == Len(commonprefix(start_list, path_list))
        rel_list == [k \in 1..(Len(start_list) - i) |-> ParDir]
                        \o SubSeq(path_list, i + 1, Len(path_list))
    IN  IF rel_list = <<>> THEN CurDir ELSE sepjoin(rel_list)

\* abs_to_rel (util.py:214-215)
abs_to_rel(startpath, path) == join(CurDir, relpath(path, startpath))

\* os.path.isfile on the tree as it is now
isfile(p) == fs[p].kind = "file"

\* hashes.values(): the values in insertion order, which is listing order
values(h) ==
    LET keys == SelectSeq(listing, LAMBDA p : p \in DOMAIN h)
    IN  [i \in 1..Len(keys) |-> h[keys[i]]]

InitHashes ==
    /\ hpc = "walk"
    /\ fs \in Trees
    /\ excluded_hashes \in SUBSET {Sha256(<<"p">>), Sha256(<<"q">>)}
    /\ towalk = <<TreeRoot>>
    /\ yielded = <<>>
    /\ listedFiles = {}
    /\ listing = <<>>
    /\ hashes = <<>>
    /\ idx = 1
    /\ relative = <<>>
    /\ result = NoResult
    /\ herr = "none"
    /\ fsChanges = 0

\* util.py:166-171 and 192: os.walk scans the next directory, allpaths yields
\* its sub-directories and then its other entries; after the last directory
\* the listing is sorted
WalkDir ==
    /\ hpc = "walk"
    /\ towalk # <<>>
    /\ LET top == Head(towalk)
           scannable == top = TreeRoot \/ fs[top].kind = "dir"
           entry(p) == scannable /\ dirname(p) = top /\ fs[p].kind # "absent"
           dirnames == SelectSeq(TreePathSeq, LAMBDA p : entry(p) /\ fs[p].kind = "dir")
           filenames == SelectSeq(TreePathSeq, LAMBDA p : entry(p) /\ fs[p].kind # "dir")
           rest == dirnames \o Tail(towalk)
           all == yielded \o dirnames \o filenames
       IN  /\ towalk' = rest
           /\ yielded' = all
           /\ listedFiles' = listedFiles \cup {filenames[i] : i \in 1..Len(filenames)}
           /\ IF rest = <<>>
              THEN listing' = SortSeq(all, StrLess) /\ hpc' = "hash_test"
              ELSE listing' = listing /\ hpc' = hpc
    /\ UNCHANGED <<fs, excluded_hashes, hashes, idx, relative, result, herr, fsChanges>>
    /\ UNCHANGED <<evars, vvars>>

\* util.py:195-196, the comprehension takes the next abspath and tests
\* os.path.isfile(abspath); at the end of listing the comprehension is done
HashTest ==
    /\ hpc = "hash_test"
    /\ IF idx > Len(listing) THEN hpc' = "rel_test" /\ idx' = 1
       ELSE IF isfile(listing[idx]) THEN hpc' = "hash_read" /\ idx' = idx
       ELSE hpc' = hpc /\ idx' = idx + 1
    /\ UNCHANGED <<fs, excluded_hashes, towalk, yielded, listedFiles, listing,
                   hashes, relative, result, herr, fsChanges>>
    /\ UNCHANGED <<evars, vvars>>

\* util.py:194 and 78-82, sha256(abspath) opens and reads the file
HashRead ==
    /\ hpc = "hash_read"
    /\ LET abspath_ == listing[idx]
       IN  IF fs[abspath_].kind = "file" /\ fs[abspath_].readable
           THEN /\ hashes' = (abspath_ :> Sha256(fs[abspath_].data)) @@ hashes
                /\ idx' = idx + 1
                /\ hpc' = "hash_test"
                /\ herr' = herr
           ELSE /\ herr' = "IOError"
                /\ hpc' = "raised"
                /\ UNCHANGED <<hashes, idx>>
    /\ UNCHANGED <<fs, excluded_hashes, towalk, yielded, listedFiles, listing,
                   relative, result, fsChanges>>
    /\ UNCHANGED <<evars, vvars>>

\* util.py:198-203, the generator relative_listing, pulled by sorted() at line
\* 206 while line 210 runs: the next abspath is tested again
RelTest ==
    /\ hpc = "rel_test"
    /\ idx <= Len(listing)
    /\ LET abspath_ == listing[idx]
           got_not_excluded ==
               IF abspath_ \in DOMAIN hashes
               THEN hashes[abspath_] \notin excluded_hashes
               ELSE TRUE
       IN  relative' = IF isfile(abspath_) /\ got_not_excluded
                       THEN Append(relative, abs_to_rel(TreeRoot, abspath_))
                       ELSE relative
    /\ idx' = idx + 1
    /\ UNCHANGED <<hpc, fs, excluded_hashes, towalk, yielded, listedFiles, listing,
                   hashes, result, herr, fsChanges>>
    /\ UNCHANGED <<evars, vvars>>

\* util.py:204-211, the triple is built and returned
Return ==
    /\ hpc = "rel_test"
    /\ idx > Len(listing)
    /\ LET srt == SortSeq(relative, StrLess)
           rel_listing_hashes == [i \in 1..Len(srt) |-> Sha256(srt[i])]
       IN  result' = [ver_code |-> gen_ver_code(values(hashes), excluded_hashes),
                      hashes |-> hashes,
                      dir_code |-> gen_ver_code(rel_listing_hashes, {})]
    /\ hpc' = "returned"
    /\ UNCHANGED <<fs, excluded_hashes, towalk, yielded, listedFiles, listing,
                   hashes, idx, relative, herr, fsChanges>>
    /\ UNCHANGED <<evars, vvars>>

Running == hpc \notin {"returned", "raised"} /\ fsChanges < MaxFsChanges

\* another process removes a file or an empty directory
FsRemove ==
    /\ Running
    /\ \E p \in TreePaths :
        /\ fs[p] # Absent
        /\ \A q \in TreePaths : dirname(q) = p => fs[q] = Absent
        /\ fs' = [fs EXCEPT ![p] = Absent]
    /\ fsChanges' = fsChanges + 1
    /\ UNCHANGED <<hpc, excluded_hashes, towalk, yielded, listedFiles, listing,
                   hashes, idx, relative, result, herr>>
    /\ UNCHANGED <<evars, vvars>>

\* another process creates a file or a directory
FsCreate ==
    /\ Running
    /\ \E p \in TreePaths, k \in {Dir} \cup {File(d, TRUE) : d \in Data} :
        /\ fs[p] = Absent
        /\ dirname(p) # TreeRoot => fs[dirname(p)] = Dir
        /\ fs' = [fs EXCEPT ![p] = k]
    /\ fsChanges' = fsChanges + 1
    /\ UNCHANGED <<hpc, excluded_hashes, towalk, yielded, listedFiles, listing,
                   hashes, idx, relative, result, herr>>
    /\ UNCHANGED <<evars, vvars>>

\* another process takes the read permission of a file away
FsChmod ==
    /\ Running
    /\ \E p \in TreePaths :
        /\ fs[p].kind = "file" /\ fs[p].readable
        /\ fs' = [fs EXCEPT ![p].readable = FALSE]
    /\ fsChanges' = fsChanges + 1
    /\ UNCHANGED <<hpc, excluded_hashes, towalk, yielded, listedFiles, listing,
                   hashes, idx, relative, result, herr>>
    /\ UNCHANGED <<evars, vvars>>

NextHashes ==
    \/ WalkDir
    \/ HashTest
    \/ HashRead
    \/ RelTest
    \/ Return
    \/ FsRemove
    \/ FsCreate
    \/ FsChmod

\* ------------------------------------------------------- the specifications

\* the state of an operation that is not running
IdleExtract ==
    /\ pc = "idle" /\ ar = [is_tarfile |-> FALSE, is_zipfile |-> FALSE, names |-> <<>>]
    /\ tempdir = NoDir /\ dirs = {} /\ written = {} /\ checked = 0
    /\ exc = "none" /\ outcome = "none" /\ rmtrees = 0

IdleVerCode ==
    /\ vpc = "idle" /\ hashesIn = <<>> /\ excludedIn = {} /\ code = 0
    /\ variant = "none" /\ variantIn = <<>> /\ variantCode = 0

IdleHashes ==
    /\ hpc = "idle" /\ fs = [p \in TreePaths |-> Absent] /\ excluded_hashes = {}
    /\ towalk = <<>> /\ yielded = <<>> /\ listedFiles = {} /\ listing = <<>>
    /\ hashes = <<>> /\ idx = 1 /\ relative = <<>> /\ result = NoResult
    /\ herr = "none" /\ fsChanges = 0

\* tempextract
Init == InitExtract /\ IdleVerCode /\ IdleHashes

Next == NextExtract

Spec == Init /\ [][Next]_vars

\* gen_ver_code
InitVer == IdleExtract /\ InitVerCode /\ IdleHashes

NextVer == NextVerCode

SpecVerCode == InitVer /\ [][NextVer]_vars

\* get_dir_hashes, with other processes changing the tree
InitDir == IdleExtract /\ IdleVerCode /\ InitHashes

NextDir == NextHashes

SpecHashes == InitDir /\ [][NextDir]_vars

\* ------------------------------------------------- claims about tempextract

\* a member name holding a '..' component or starting with '/'
HasTraversal(name) ==
    \/ isabs(name)
    \/ \E i \in 1..Len(split(name)) : split(name)[i] = ParDir

\* the call has bound tempdir, i.e. mkdtemp returned a directory
Allocated == tempdir # NoDir

\* C1: every member name the member check of safe_extract has accepted has a
\* canonical destination join(R, m) that is the extraction root R or lies
\* below it on a path-component boundary.
C1_AcceptedMembersStayUnderRoot ==
    \A i \in 1..checked :
        Under(abspath(join(tempdir, ar.names[i])), abspath(tempdir))

\* C2: for a recognized archive with a member named with '..' or an absolute
\* path, when nothing else goes wrong (no failure of mkdtemp, of the archive
\* library, of the caller or of rmtree), the caller is never handed an
\* extraction result, nothing is ever written outside the temporary
\* directory, and the call ends with the path-traversal error and the
\* temporary directory removed.
C2_TraversalArchiveIsRejected ==
    ( /\ archive_type(ar) # "None"
      /\ \E i \in 1..Len(ar.names) : HasTraversal(ar.names[i])
      /\ exc \in {"none", "PathTraversal"}
      /\ outcome # "RmtreeError" )
    => /\ pc # "yielded"
       /\ \A p \in written : Under(p, tempdir)
       /\ pc = "done" => (outcome = "PathTraversal" /\ tempdir \notin dirs)

\* C3 (as claimed): once a temporary directory was allocated it stays on disk
\* until the call ends, and at the end it has been removed by exactly one
\* rmtree, on every exit path.
C3_RemovedExactlyOnce ==
    Allocated =>
        /\ pc # "done" => (rmtrees = 0 /\ tempdir \in dirs)
        /\ pc = "done" => (rmtrees = 1 /\ tempdir \notin dirs)

\* C3 (amended): once a temporary directory was allocated it stays on disk
\* until the call ends; on every exit path rmtree is called on it exactly
\* once, at the end, and unless that rmtree call itself fails the directory
\* and everything written under it are gone.
C3_RemovalAttemptedExactlyOnce ==
    Allocated =>
        /\ pc # "done" => (rmtrees = 0 /\ tempdir \in dirs)
        /\ pc = "done" =>
            /\ rmtrees = 1
            /\ outcome # "RmtreeError" =>
                /\ tempdir \notin dirs
                /\ \A p \in written : ~Under(p, tempdir)

\* the caller's scope raised after a successful extraction that wrote files,
\* and the call has ended with the directory removed
C3_Witness ==
    /\ pc = "done"
    /\ Allocated
    /\ exc = "CallerError"
    /\ outcome = "CallerError"
    /\ Len(ar.names) > 0
    /\ rmtrees = 1
    /\ tempdir \notin dirs

\* C4: during a call on an input that archive_type classifies as neither tar
\* nor zip, no step changes the set of existing temporary directories.
C4_NoTempdirForNonArchive ==
    [][archive_type(ar) = "None" => dirs' = dirs]_vars

\* C5: nothing is written to disk, and no result is handed to the caller,
\* before every member of the archive has passed the containment check.
C5_RejectBeforeWrite ==
    (written # {} \/ pc = "yielded") => checked = Len(ar.names)

\* C9: when an error occurred before the cleanup step, that error is the one
\* the caller observes, whatever the cleanup step does.
C9_EarlierErrorSurfaces ==
    (pc = "done" /\ exc # "none") => outcome = exc

\* ------------------------------------------------ claims about gen_ver_code

\* C6: gen_ver_code on hashesIn with one element repeated returns the same
\* code as gen_ver_code on hashesIn.
C6_DuplicateInvariant ==
    (vpc = "second" /\ variant = "dup") => variantCode = code

\* C7: gen_ver_code returns the same code for every permutation of its input,
\* and the digest of the empty string when the input is empty or every hash
\* in it is excluded.
C7_OrderIndependent ==
    /\ (vpc = "second" /\ variant = "perm") => variantCode = code
    /\ ( /\ vpc \in {"first", "second"}
         /\ \A i \in 1..Len(hashesIn) : hashesIn[i] \in excludedIn )
       => code = Sha1(<<>>)

\* a reordered input with an exclusion that leaves something to hash, and the
\* two codes computed
C7_Witness ==
    /\ vpc = "second"
    /\ variant = "perm"
    /\ variantIn # hashesIn
    /\ excludedIn # {}
    /\ \E i \in 1..Len(hashesIn) : hashesIn[i] \notin excludedIn
    /\ code = gen_ver_code(hashesIn, excludedIn)
    /\ code # Sha1(<<>>)
    /\ variantCode = code

\* --------------------------------------------- claims about get_dir_hashes

\* C8: a returned triple holds a hash for every path the walk listed as a
\* file; a listed file that went away before it was hashed makes the call
\* raise instead.
C8_NoSilentSkip ==
    hpc = "returned" => listedFiles \subseteq DOMAIN result.hashes

\* C10: in a returned triple the relative paths behind the relative-identity
\* code are exactly those of the keys of the hash map whose hash is not
\* excluded, and the verification code is the code of exactly the
\* non-excluded values of that map.
C10_TripleConsistent ==
    hpc = "returned" =>
        LET kept == {p \in DOMAIN result.hashes :
                        result.hashes[p] \notin excluded_hashes}
            keptSeq == SelectSeq(listing, LAMBDA p : p \in kept)
        IN  /\ {relative[i] : i \in 1..Len(relative)}
                 = {abs_to_rel(TreeRoot, p) : p \in kept}
            /\ result.ver_code
                 = Sha1(sorted([i \in 1..Len(keptSeq) |-> result.hashes[keptSeq[i]]]))

====
